---- MODULE Spec2Model ----
(***************************************************************************)
(* Model of akvorado's helpers.SubnetMap (decode hook, Lookup,             *)
(* MarshalYAML) and of the ClickHouse orchestrator's migrateDatabase.      *)
(*                                                                         *)
(* A net.IP is a tuple of 4 or 16 bytes.  A string holding a CIDR is       *)
(* modelled by its syntax: the form of the address part ("v4" a.b.c.d,     *)
(* "v6" hexadecimal groups, "v6mapped" ::ffff:a.b.c.d), the address        *)
(* digits and the text after the slash (<<n>> for a decimal number,        *)
(* <<m1,m2,m3,m4>> for a dotted mask).  Two strings are equal iff their    *)
(* records are.                                                            *)
(***************************************************************************)
EXTENDS Integers, Sequences, FiniteSets, TLC

\* ------------------------------------------------------------ bounds
\* Largest number of keys of an input mapping.
MaxKeys == 2
\* Number of concurrent readers of a decoded table.
NumReaders == 2

\* ------------------------------------------------------- net.IP helpers
IPv4len == 4
IPv6len == 16
V4Bits == 32
V6Bits == 128
\* Offset of an IPv4 prefix length inside the IPv4-mapped IPv6 space.
MappedOffset == 96

v4InV6Prefix == <<0, 0, 0, 0, 0, 0, 0, 0, 0, 0, 255, 255>>

Pow2(k) == CASE k = 0 -> 1 [] k = 1 -> 2 [] k = 2 -> 4 [] k = 3 -> 8 [] k = 4 -> 16
             [] k = 5 -> 32 [] k = 6 -> 64 [] k = 7 -> 128 [] OTHER -> 256

\* net.IP.To16: a 4-byte address becomes its IPv4-mapped form.
To16(ip) == IF Len(ip) = IPv4len THEN v4InV6Prefix \o ip ELSE ip

\* net.IP.To4: the 4 bytes of an IPv4 or IPv4-mapped address, <<>> (nil) otherwise.
To4(ip) ==
  IF Len(ip) = IPv4len THEN ip
  ELSE IF Len(ip) = IPv6len /\ SubSeq(ip, 1, 12) = v4InV6Prefix THEN SubSeq(ip, 13, 16)
  ELSE <<>>

\* net.IP.Mask with net.CIDRMask(ones, 8*Len(ip)): keep the top `ones` bits.
MaskIP(ip, ones) ==
  [i \in 1..Len(ip) |->
     IF 8 * i <= ones THEN ip[i]
     ELSE IF 8 * (i - 1) >= ones THEN 0
     ELSE LET keep == ones - 8 * (i - 1) IN
          (ip[i] \div Pow2(8 - keep)) * Pow2(8 - keep)]

\* Bit i (0 = most significant) of an address.
Bit(ip, i) == (ip[(i \div 8) + 1] \div Pow2(7 - (i % 8))) % 2

\* ---------------------------------------------------------- strings
StrKey(form, ip, mask) == [kind |-> "string", form |-> form, ip |-> ip, mask |-> mask]
\* A mapping key that is not a string (k.Kind() != reflect.String).
IntKey == [kind |-> "int", form |-> "", ip |-> <<>>, mask |-> <<>>]

\* net.ParseCIDR: the address part decides the family, the text after the
\* slash must be one decimal number in 0..8*iplen; the network address is
\* the address masked.  Returns the *net.IPNet as [IP, ones, bits].
ParseCIDR(s) ==
  LET iplen == IF s.form = "v4" THEN IPv4len ELSE IPv6len
      ip    == IF s.form = "v6mapped" THEN v4InV6Prefix \o s.ip ELSE s.ip
  IN IF Len(s.mask) # 1 \/ s.mask[1] < 0 \/ s.mask[1] > 8 * iplen
     THEN [ok |-> FALSE, IP |-> <<>>, ones |-> 0, bits |-> 0]
     ELSE [ok |-> TRUE, IP |-> MaskIP(ip, s.mask[1]), ones |-> s.mask[1],
           bits |-> 8 * iplen]

\* net.IP.String followed by "/" and a number: an address with To4() # nil
\* prints dotted, any other 16-byte address prints as hexadecimal groups.
\* net.IPNet.String: networkNumberAndMask takes IP.To4() when it is not nil and
\* then drops the first 12 bytes of a 16-byte mask.
IPNetString(IP, ones, bits) ==
  LET ip4 == To4(IP) IN
  IF ip4 # <<>>
  THEN StrKey("v4", ip4,
              <<IF bits = V4Bits THEN ones
                ELSE IF ones >= MappedOffset THEN ones - MappedOffset ELSE 0>>)
  ELSE StrKey("v6", IP, <<ones>>)

\* fmt.Sprintf("::ffff:%s/%d", ipNet.IP.String(), ones+96) for a 4-byte network.
SprintfMapped(IP, ones) == StrKey("v6mapped", IP, <<ones + MappedOffset>>)

\* ---------------------------------------------------------- raw values
\* A raw (not yet decoded) value: how its type relates to V (of type V,
\* convertible to V, or neither), whether the inner value decode accepts it,
\* and the V it then decodes to.
RawVal(type, ok, val) == [type |-> type, ok |-> ok, val |-> val]
\* The zero value of V (V = string in the tests).
Zero == ""

\* Go map assignment m[key] = val on a map held as a set of [key, val].
MapSet(m, key, val) == {e \in m : e.key # key} \cup {[key |-> key, val |-> val]}

RECURSIVE Perms(_)
Perms(S) ==
  IF S = {} THEN {<<>>}
  ELSE UNION {{<<x>> \o p : p \in Perms(S \ {x})} : x \in S}

RECURSIVE SetToSeq(_)
SetToSeq(S) ==
  IF S = {} THEN <<>>
  ELSE LET x == CHOOSE y \in S : TRUE IN <<x>> \o SetToSeq(S \ {x})

\* The ways a Go map of at most MaxKeys entries can be iterated: a ranking of
\* its entries.
Rankings == Perms(1..MaxKeys)

\* The entries of map m in the iteration order ranking `sigma` gives.
MapRange(m, sigma) ==
  LET base == SetToSeq(m)
      InRange(i) == i <= Len(base)
      idx  == SelectSeq(sigma, InRange)
  IN [j \in 1..Len(idx) |-> base[idx[j]]]

\* ------------------------------------------------- patricia.TreeV6[V]
\* patricia.NewIPv6Address(address, length).
NewIPv6Address(ip, length) == [ip |-> ip, len |-> length]

\* The prefix a tree node stands for: only the first `len` bits are kept.
NodeAddress(a) == [ip |-> MaskIP(a.ip, a.len), len |-> a.len]

\* tree.Set(address, tag): one tag per prefix, a second Set replaces it.
TrieSet(tree, a, tag) ==
  {e \in tree : e.addr # NodeAddress(a)} \cup {[addr |-> NodeAddress(a), tag |-> tag]}

RECURSIVE DeepestWalkShallow(_, _, _, _)
\* A descent that stops at the first tagged node on the path.
DeepestWalkShallow(tree, a, depths, best) ==
  IF depths = {} \/ best.found THEN best
  ELSE LET d    == CHOOSE x \in depths : \A y \in depths : x <= y
           here == {e \in tree : e.addr = [ip |-> MaskIP(a.ip, d), len |-> d]}
           nxt  == IF d <= a.len /\ here # {}
                   THEN [found |-> TRUE, tag |-> (CHOOSE e \in here : TRUE).tag]
                   ELSE best
       IN DeepestWalkShallow(tree, a, depths \ {d}, nxt)

RECURSIVE DeepestWalk(_, _, _, _)
\* The descent of FindDeepestTag: visit the depths that hold nodes from the
\* root down, remember the last tagged node on the path of the address.
DeepestWalk(tree, a, depths, best) ==
  IF depths = {} THEN best
  ELSE LET d    == CHOOSE x \in depths : \A y \in depths : x <= y
           here == {e \in tree : e.addr = [ip |-> MaskIP(a.ip, d), len |-> d]}
           nxt  == IF d <= a.len /\ here # {}
                   THEN [found |-> TRUE, tag |-> (CHOOSE e \in here : TRUE).tag]
                   ELSE best
       IN DeepestWalk(tree, a, depths \ {d}, nxt)

\* tree.FindDeepestTag(address): (found, tag).
FindDeepestTag(tree, a) ==
  DeepestWalk(tree, a, {e.addr.len : e \in tree}, [found |-> FALSE, tag |-> Zero])

\* A printer that keeps the 128-bit prefix length beside a dotted address.
AddressStringFullLength(addr) ==
  IF To4(addr.ip) # <<>> THEN StrKey("v4", To4(addr.ip), <<addr.len>>)
  ELSE StrKey("v6", addr.ip, <<addr.len>>)

\* A printer that leaves the prefix length out.
AddressStringNoLength(addr) ==
  IF To4(addr.ip) # <<>> THEN StrKey("v4", To4(addr.ip), <<0>>)
  ELSE StrKey("v6", addr.ip, <<0>>)

\* iter.Address().String() of the tree iterator: the node's prefix printed as a
\* net.IPNet with a 128-bit mask.
AddressString(addr) == IPNetString(addr.ip, addr.len, V6Bits)

\* ---------------------------------------------------------- SubnetMap
NilMap == [hasTree |-> FALSE, tree |-> {}]

\* SubnetMap.Lookup.
Lookup(sm, ip) ==
  IF ~sm.hasTree THEN [value |-> Zero, ok |-> FALSE]
  ELSE LET r == FindDeepestTag(sm.tree, NewIPv6Address(To16(ip), V6Bits))
       IN [value |-> r.tag, ok |-> r.found]

\* SubnetMap.MarshalYAML run from start to end on its own.
MarshalYAML(sm) ==
  IF ~sm.hasTree THEN {}
  ELSE {[key |-> AddressString(e.addr), val |-> e.tag] : e \in sm.tree}

\* ------------------------------------------------------- the decode hook
\* The key stored in `output` for a parsed key: an IPv4 network is rewritten
\* as ::ffff:<network>/<ones+96>, anything else is ipNet.String().
OutputKey(p) ==
  IF p.bits = V4Bits THEN SprintfMapped(p.IP, p.ones)
  ELSE IPNetString(p.IP, p.ones, p.bits)

RECURSIVE KeyLoopSkipInvalid(_, _, _)
\* A loop that passes over a key it cannot use instead of returning an error.
KeyLoopSkipInvalid(order, i, output) ==
  IF i > Len(order) THEN [err |-> "", output |-> output]
  ELSE LET k == order[i].key
           p == ParseCIDR(k)
       IN IF k.kind # "string" \/ ~p.ok
          THEN KeyLoopSkipInvalid(order, i + 1, output)
          ELSE KeyLoopSkipInvalid(order, i + 1, MapSet(output, OutputKey(p), order[i].val))

RECURSIVE KeyLoop(_, _, _)
\* The loop over the input mapping, in iteration order `order` (i counts from
\* 1 here, from 0 in the source).
KeyLoop(order, i, output) ==
  IF i > Len(order) THEN [err |-> "", output |-> output]
  ELSE LET k == order[i].key
           p == ParseCIDR(k)
       IN IF k.kind # "string" THEN [err |-> "key is not a string", output |-> {}]
          ELSE IF ~p.ok THEN [err |-> "invalid CIDR address", output |-> {}]
          ELSE IF p.bits # V4Bits /\ p.bits # V6Bits
               THEN [err |-> "key has an invalid netmask", output |-> {}]
          ELSE KeyLoop(order, i + 1, MapSet(output, OutputKey(p), order[i].val))

\* "::ffff:0.0.0.0/96" in place of "::/0": every IPv4 address only.
DefaultKeyV4 == StrKey("v6mapped", <<0, 0, 0, 0>>, <<96>>)

\* The key under which a single value is stored: "::/0".
DefaultKey == StrKey("v6", <<0, 0, 0, 0, 0, 0, 0, 0, 0, 0, 0, 0, 0, 0, 0, 0>>, <<0>>)

\* Whether the inner decoder (helpers.GetMapStructureDecoderConfig) accepts a
\* raw value as a V.
InnerAccepts(v) == v.ok

\* intermediateDecoder.Decode(output) into map[string]V.
IntermediateDecode(output) ==
  IF \E e \in output : ~InnerAccepts(e.val)
  THEN [err |-> "unable to decode", intermediate |-> {}]
  ELSE [err |-> "", intermediate |-> {[key |-> e.key, val |-> e.val.val] : e \in output}]

RECURSIVE TrieLoop(_, _, _)
\* The loop over `intermediate` that fills the trie, in iteration order `order`.
TrieLoop(order, i, trie) ==
  IF i > Len(order) THEN [err |-> "", trie |-> trie]
  ELSE LET p == ParseCIDR(order[i].key) IN
       IF ~p.ok THEN [err |-> "invalid CIDR address", trie |-> {}]
       ELSE TrieLoop(order, i + 1,
                     TrieSet(trie, NewIPv6Address(To16(p.IP), p.ones), order[i].val))

HookResult(kind, err, sm, value) == [kind |-> kind, err |-> err, sm |-> sm, value |-> value]

\* The part of the hook after `output` is built: inner decode, then the trie.
\* sigma2 gives the iteration order of `intermediate`.
BuildTable(from, output, sigma2) ==
  LET dec == IntermediateDecode(output) IN
  IF dec.err # "" THEN HookResult("error", dec.err, NilMap, from)
  ELSE LET built == TrieLoop(MapRange(dec.intermediate, sigma2), 1, {}) IN
       IF built.err # "" THEN HookResult("error", built.err, NilMap, from)
       ELSE HookResult("table", "", [hasTree |-> TRUE, tree |-> built.trie], from)

\* A hook that fails where it should decline.
DeclineAsError(from) == HookResult("error", "unsupported input", NilMap, from)

\* return from.Interface(), nil: the hook does not apply.
Decline(from) == HookResult("declined", "", NilMap, from)

\* The function SubnetMapUnmarshallerHook returns, applied to (from, to).
\* toSubnetMap: to.Type() is SubnetMap[V]; sigma1, sigma2: the iteration orders
\* of the input mapping and of `intermediate`.
Hook(from, toSubnetMap, sigma1, sigma2) ==
  IF ~toSubnetMap THEN Decline(from)
  ELSE IF from.kind = "map"
  THEN LET looped == KeyLoop(MapRange(from.entries, sigma1), 1, {}) IN
       IF looped.err # "" THEN HookResult("error", looped.err, NilMap, from)
       ELSE BuildTable(from, looped.output, sigma2)
  ELSE IF from.val.type = "V" \/ from.val.type = "conv"
  THEN BuildTable(from, MapSet({}, DefaultKey, from.val), sigma2)
  ELSE Decline(from)

\* ------------------------------------------------------------- inputs
Net203      == StrKey("v4", <<203, 0, 113, 0>>, <<24>>)
Net203Host  == StrKey("v4", <<203, 0, 113, 7>>, <<24>>)
Net203In6   == StrKey("v6mapped", <<203, 0, 113, 0>>, <<120>>)
Net10Slash8 == StrKey("v4", <<10, 0, 0, 0>>, <<8>>)
Net10Slash16 == StrKey("v4", <<10, 0, 0, 0>>, <<16>>)
NetDb8      == StrKey("v6", <<32, 1, 13, 184, 0, 1, 0, 0, 0, 0, 0, 0, 0, 0, 0, 0>>, <<64>>)
BadPrefixLen == StrKey("v4", <<192, 0, 2, 1>>, <<38>>)
BadDottedMask == StrKey("v4", <<192, 0, 2, 1>>, <<255, 0, 255, 0>>)
BadPrefixLen6 == StrKey("v6", <<32, 1, 13, 184, 0, 0, 0, 0, 0, 0, 0, 0, 0, 0, 0, 0>>, <<1000>>)

ValidKeys == {Net203, Net203Host, Net203In6, Net10Slash8, Net10Slash16, NetDb8, DefaultKey}
InvalidKeys == {BadPrefixLen, BadDottedMask, BadPrefixLen6, IntKey}
Keys == ValidKeys \cup InvalidKeys

ValA == RawVal("V", TRUE, "A")
ValB == RawVal("V", TRUE, "B")
\* Convertible to V and accepted by the inner decode.
ValConv == RawVal("conv", TRUE, "C")
\* Convertible to V (reflect) but rejected by the inner decode.
ValConvBad == RawVal("conv", FALSE, "D")
\* Neither of type V nor convertible to it, and rejected by the inner decode.
ValOther == RawVal("other", FALSE, "E")
MapValues == {ValA, ValB, ValOther}
ScalarValues == {ValA, ValConv, ValConvBad, ValOther}

MapInput(entries) == [kind |-> "map", entries |-> entries, val |-> ValOther]
ScalarInput(v) == [kind |-> "scalar", entries |-> {}, val |-> v]

\* Every mapping of at most MaxKeys keys (a nil map is the empty one).
Mappings ==
  UNION {{{[key |-> k, val |-> f[k]] : k \in ks} : f \in [ks -> MapValues]} :
         ks \in {x \in SUBSET Keys : Cardinality(x) <= MaxKeys}}

Inputs == {MapInput(m) : m \in Mappings} \cup {ScalarInput(v) : v \in ScalarValues}
\* Inputs handed to the hook for a target that is not a SubnetMap[V].
OtherTargetInputs ==
  {MapInput({}), MapInput({[key |-> Net203, val |-> ValA]})} \cup
  {ScalarInput(v) : v \in ScalarValues}

\* Addresses looked up: net.IP values of 4 or 16 bytes.
Addr203 == <<203, 0, 113, 16>>
Addr203Out == <<203, 0, 1, 1>>
Addr10Near == <<10, 0, 0, 1>>
Addr10Far == <<10, 1, 0, 1>>
Addr203In6 == v4InV6Prefix \o <<203, 0, 113, 18>>
AddrDb8 == <<32, 1, 13, 184, 0, 1, 0, 0, 0, 0, 0, 0, 0, 0, 0, 1>>
AddrDb8Out == <<32, 1, 13, 184, 0, 2, 0, 0, 0, 0, 0, 0, 0, 0, 0, 2>>
AddrLoopback6 == <<0, 0, 0, 0, 0, 0, 0, 0, 0, 0, 0, 0, 0, 0, 0, 1>>
Addresses == {Addr203, Addr203Out, Addr10Near, Addr10Far, Addr203In6, AddrDb8,
              AddrDb8Out, AddrLoopback6}

Readers == 1..NumReaders

\* -------------------------------------------------------------- state
VARIABLES
  from,          \* the raw input handed to the decoder
  toSubnetMap,   \* whether the decode target is a SubnetMap[V]
  phase,         \* "init", then what the hook did: "table", "error", "declined"
  sm,            \* the caller's SubnetMap (the decode target)
  ret,           \* what the hook returned: [err, value]
  rpc,           \* per reader: "idle" or "iter" (inside MarshalYAML's loop)
  rop,           \* per reader: the last call that returned: "none", "lookup", "marshal"
  rarg,          \* per reader: the address of the last Lookup
  rres,          \* per reader: the result of the last Lookup
  rvisited,      \* per reader: the prefixes its iterator has visited
  rout,          \* per reader: MarshalYAML's output map
  rt,            \* the table decoded from a canonical mapping: [phase, sm]
  mig            \* migrateDatabase: its position and what it did

subnetVars == <<from, toSubnetMap, phase, sm, ret, rpc, rop, rarg, rres, rvisited, rout, rt>>
vars == <<from, toSubnetMap, phase, sm, ret, rpc, rop, rarg, rres, rvisited, rout, rt, mig>>

NoResult == [value |-> Zero, ok |-> FALSE]
NoAddr == <<>>

ReadersIdle ==
  /\ rpc = [r \in Readers |-> "idle"]
  /\ rop = [r \in Readers |-> "none"]
  /\ rarg = [r \in Readers |-> NoAddr]
  /\ rres = [r \in Readers |-> NoResult]
  /\ rvisited = [r \in Readers |-> {}]
  /\ rout = [r \in Readers |-> {}]

\* var tree helpers.SubnetMap[string]; nothing decoded yet.
InitSubnet ==
  /\ \/ toSubnetMap = TRUE /\ from \in Inputs
     \/ toSubnetMap = FALSE /\ from \in OtherTargetInputs
  /\ phase = "init"
  /\ sm = NilMap
  /\ ret = [err |-> "", value |-> MapInput({})]
  /\ ReadersIdle
  /\ rt = [phase |-> "none", sm |-> NilMap]

\* decoder.Decode(input): the hook runs; a table it returns is stored in the
\* target, an error or a declined input leaves the target as it was.
Decode ==
  /\ phase = "init"
  /\ \E sigma1 \in Rankings, sigma2 \in Rankings :
       LET h == Hook(from, toSubnetMap, sigma1, sigma2) IN
       /\ phase' = h.kind
       /\ sm' = IF h.kind = "table" THEN h.sm ELSE sm
       /\ ret' = [err |-> h.err, value |-> h.value]
  /\ UNCHANGED <<from, toSubnetMap, rpc, rop, rarg, rres, rvisited, rout, rt, mig>>

\* A reader calls sm.Lookup(ip).
LookupCall(r, ip) ==
  /\ phase # "init"
  /\ rpc[r] = "idle"
  /\ rop' = [rop EXCEPT ![r] = "lookup"]
  /\ rarg' = [rarg EXCEPT ![r] = ip]
  /\ rres' = [rres EXCEPT ![r] = Lookup(sm, ip)]
  /\ rout' = [rout EXCEPT ![r] = {}]
  /\ UNCHANGED <<from, toSubnetMap, phase, sm, ret, rpc, rvisited, rt, mig>>

\* A reader enters sm.MarshalYAML(): a nil tree returns the empty map at once,
\* otherwise the iterator is created.
MarshalStart(r) ==
  /\ phase # "init"
  /\ rpc[r] = "idle"
  /\ rpc' = [rpc EXCEPT ![r] = IF sm.hasTree THEN "iter" ELSE "idle"]
  /\ rop' = [rop EXCEPT ![r] = IF sm.hasTree THEN "none" ELSE "marshal"]
  /\ rarg' = [rarg EXCEPT ![r] = NoAddr]
  /\ rres' = [rres EXCEPT ![r] = NoResult]
  /\ rvisited' = [rvisited EXCEPT ![r] = {}]
  /\ rout' = [rout EXCEPT ![r] = {}]
  /\ UNCHANGED <<from, toSubnetMap, phase, sm, ret, rt, mig>>

\* An iterator that removes the node it has visited.
TreeAfterVisitConsuming(tree, e) == tree \ {e}

\* The tree the iterator's step leaves behind: iterating does not write.
TreeAfterVisit(tree, e) == tree

\* One round of the loop: iter.Next() is true, the node's address and first
\* tag go to the output.
MarshalNext(r) ==
  /\ rpc[r] = "iter"
  /\ \E e \in sm.tree :
       /\ e.addr \notin rvisited[r]
       /\ rvisited' = [rvisited EXCEPT ![r] = @ \cup {e.addr}]
       /\ rout' = [rout EXCEPT ![r] = MapSet(@, AddressString(e.addr), e.tag)]
       /\ sm' = [sm EXCEPT !.tree = TreeAfterVisit(@, e)]
  /\ UNCHANGED <<from, toSubnetMap, phase, ret, rpc, rop, rarg, rres, rt, mig>>

\* iter.Next() is false: MarshalYAML returns its output.
MarshalReturn(r) ==
  /\ rpc[r] = "iter"
  /\ \A e \in sm.tree : e.addr \in rvisited[r]
  /\ rpc' = [rpc EXCEPT ![r] = "idle"]
  /\ rop' = [rop EXCEPT ![r] = "marshal"]
  /\ rvisited' = [rvisited EXCEPT ![r] = {}]
  /\ UNCHANGED <<from, toSubnetMap, phase, sm, ret, rarg, rres, rout, rt, mig>>

\* The mapping MarshalYAML returned, as a raw input: its values are of type V.
AsInput(m) == MapInput({[key |-> e.key, val |-> RawVal("V", TRUE, e.val)] : e \in m})

\* The canonical mapping a reader obtained is decoded into a second SubnetMap.
ReDecode(r) ==
  /\ rpc[r] = "idle" /\ rop[r] = "marshal"
  /\ rt.phase = "none"
  /\ \E sigma1 \in Rankings, sigma2 \in Rankings :
       LET h == Hook(AsInput(rout[r]), TRUE, sigma1, sigma2) IN
       rt' = [phase |-> h.kind, sm |-> h.sm]
  /\ UNCHANGED <<from, toSubnetMap, phase, sm, ret, rpc, rop, rarg, rres, rvisited, rout, mig>>

\* ---------------------------------------------------- migrateDatabase
\* The number of entries of the `steps` list.
NumSteps == 9
CheckOutcomes == {"queryError", "noRow", "scanError", "zero", "nonZero"}

\* The component before migrateDatabase is called: migrationsDone is open.
MigIdle ==
  [pc |-> "idle", idx |-> 0, log |-> <<>>, closes |-> 0, count |-> 0, total |-> 0,
   applied |-> 0, notApplied |-> 0, err |-> ""]

\* Entry of migrateDatabase: an empty OrchestratorURL is guessed with
\* getHTTPBaseURL, whose failure is returned before any step.
MigrateStart ==
  /\ mig.pc = "idle"
  /\ \E urlEmpty \in BOOLEAN, guessed \in BOOLEAN :
       mig' = IF urlEmpty /\ ~guessed
              THEN [mig EXCEPT !.pc = "failed", !.err = "cannot get our IP address"]
              ELSE [mig EXCEPT !.pc = "check", !.idx = 1]
  /\ UNCHANGED subnetVars

\* A round that runs Do whatever the check returned.
AfterNonZeroRuns(m) == [m EXCEPT !.pc = "do"]

\* Where the loop goes once a step's check said the step is not needed.
AfterNonZero(m) ==
  [m EXCEPT !.pc = "check", !.idx = @ + 1, !.notApplied = @ + 1]

\* Where the function goes when a step's Do returned an error.
AfterDoError(m) == [m EXCEPT !.pc = "failed", !.err = "during migration step"]

\* One round of the loop up to step.Do: the check query and the scan of its
\* first row.
MigrateCheck ==
  /\ mig.pc = "check" /\ mig.idx <= NumSteps
  /\ \E o \in CheckOutcomes :
       LET m == [mig EXCEPT !.total = @ + 1,
                            !.log = Append(@, [ev |-> "check", step |-> mig.idx, res |-> o])]
       IN mig' = CASE o = "queryError" ->
                        [m EXCEPT !.pc = "failed", !.err = "cannot execute check"]
                   [] o = "scanError" ->
                        [m EXCEPT !.pc = "failed", !.err = "cannot parse check result"]
                   [] o = "nonZero" -> AfterNonZero(m)
                   [] OTHER -> [m EXCEPT !.pc = "do"]
  /\ UNCHANGED subnetVars

\* step.Do() and what follows it in the round.
MigrateDo ==
  /\ mig.pc = "do"
  /\ \E ok \in BOOLEAN :
       LET m == [mig EXCEPT !.log = Append(@, [ev |-> "do", step |-> mig.idx,
                                               res |-> IF ok THEN "ok" ELSE "error"])]
       IN mig' = IF ok
                 THEN [m EXCEPT !.pc = "check", !.idx = @ + 1, !.applied = @ + 1,
                                !.count = @ + 1]
                 ELSE AfterDoError(m)
  /\ UNCHANGED subnetVars

\* After the loop: close(c.migrationsDone) and return nil.
MigrateFinish ==
  /\ mig.pc = "check" /\ mig.idx > NumSteps
  /\ mig' = [mig EXCEPT !.pc = "done", !.closes = @ + 1]
  /\ UNCHANGED subnetVars

\* ------------------------------------------------------ specifications
MainReader == 1

Init == InitSubnet /\ mig = MigIdle

\* One caller: decode, then look up and marshal, then decode the canonical
\* mapping again (what the test does with each case).
Next ==
  \/ Decode
  \/ \E ip \in Addresses : LookupCall(MainReader, ip)
  \/ MarshalStart(MainReader)
  \/ MarshalNext(MainReader)
  \/ MarshalReturn(MainReader)
  \/ ReDecode(MainReader)

Spec == Init /\ [][Next]_vars

\* Tables shared by concurrent readers.
SharedMappings ==
  {m \in Mappings : \A e \in m : e.key \in {Net10Slash8, Net10Slash16, NetDb8} /\ e.val = ValA}

InitReaders ==
  /\ toSubnetMap = TRUE
  /\ from \in {MapInput(m) : m \in SharedMappings} \cup {ScalarInput(ValB)}
  /\ phase = "init"
  /\ sm = NilMap
  /\ ret = [err |-> "", value |-> MapInput({})]
  /\ ReadersIdle
  /\ rt = [phase |-> "none", sm |-> NilMap]
  /\ mig = MigIdle

\* Any number of readers call Lookup and MarshalYAML on the decoded table, in
\* any interleaving.
NextReaders ==
  \/ Decode
  \/ \E r \in Readers, ip \in Addresses : LookupCall(r, ip)
  \/ \E r \in Readers : MarshalStart(r)
  \/ \E r \in Readers : MarshalNext(r)
  \/ \E r \in Readers : MarshalReturn(r)

SpecReaders == InitReaders /\ [][NextReaders]_vars

InitMigrate ==
  /\ toSubnetMap = TRUE
  /\ from = MapInput({})
  /\ phase = "init"
  /\ sm = NilMap
  /\ ret = [err |-> "", value |-> MapInput({})]
  /\ ReadersIdle
  /\ rt = [phase |-> "none", sm |-> NilMap]
  /\ mig = MigIdle

NextMigrate == MigrateStart \/ MigrateCheck \/ MigrateDo \/ MigrateFinish

SpecMigrate == InitMigrate /\ [][NextMigrate]_vars

\* ================================================================ claims
\* What the claims speak of, stated apart from the operators above.

\* The 128-bit form of a queried address.
Addr128(ip) == IF Len(ip) = 4 THEN <<0, 0, 0, 0, 0, 0, 0, 0, 0, 0, 255, 255>> \o ip ELSE ip

\* Prefix p contains the 128-bit address a: their first p.len bits agree.
Contains(p, a) == \A i \in 0..(p.len - 1) : Bit(p.ip, i) = Bit(a, i)

\* The entries of the caller's table (none when the trie is nil).
Stored == IF sm.hasTree THEN sm.tree ELSE {}

Miss == [value |-> "", ok |-> FALSE]
Hit(v) == [value |-> v, ok |-> TRUE]

Looked(r) == rpc[r] = "idle" /\ rop[r] = "lookup"
Marshalled(r) == rpc[r] = "idle" /\ rop[r] = "marshal"

\* C1: Lookup returns the value of the stored entry with the largest prefix
\* length among the stored prefixes containing the address, and (zero, false)
\* when no stored prefix contains it (so a nil or empty trie always misses).
C1_LongestPrefixMatch ==
  (phase # "init" /\ Looked(MainReader)) =>
    LET a == Addr128(rarg[MainReader])
        matches == {e \in Stored : Contains(e.addr, a)}
    IN IF matches = {} THEN rres[MainReader] = Miss
       ELSE \E e \in matches :
              /\ \A f \in matches : f.addr.len <= e.addr.len
              /\ rres[MainReader] = Hit(e.tag)

\* C1 witness: 10.0.0.0/8 -> A nested with 10.0.0.0/16 -> B, an address inside
\* the /16 was looked up and gave B.
C1_Witness ==
  /\ phase = "table"
  /\ from.entries = {[key |-> Net10Slash8, val |-> ValA], [key |-> Net10Slash16, val |-> ValB]}
  /\ Looked(MainReader) /\ rarg[MainReader] = Addr10Near
  /\ rres[MainReader] = Hit("B")

\* A key the claims call invalid: not a string, a prefix length beyond the
\* family's width, a dotted mask.
HasInvalidKey == \E e \in from.entries : e.key \in InvalidKeys
Family(k) == IF k.form = "v4" THEN 4 ELSE 6
\* An undecodable value that no other key of the mapping can replace: its key
\* is the only one of its address family.
HasRejectedValue ==
  \E e \in from.entries :
     /\ ~e.val.ok
     /\ \A f \in from.entries \ {e} : Family(f.key) # Family(e.key)

\* C2: a mapping with an invalid key (at any position of the iteration) or
\* whose inner value decode fails makes Decode return an error and no table:
\* the caller's table stays nil, every Lookup misses and the canonical mapping
\* is empty.
C2_AtomicFailure ==
  (phase # "init" /\ toSubnetMap) =>
    /\ (from.kind = "map" /\ (HasInvalidKey \/ HasRejectedValue)) => phase = "error"
    /\ phase = "error" =>
         /\ ret.err # ""
         /\ sm = [hasTree |-> FALSE, tree |-> {}]
         /\ Looked(MainReader) => rres[MainReader] = Miss
         /\ Marshalled(MainReader) => rout[MainReader] = {}

\* C2 witness: a valid key with a good value beside an invalid key; the decode
\* failed and a Lookup inside the valid key's subnet missed.
C2_Witness ==
  /\ phase = "error"
  /\ from.entries = {[key |-> Net203, val |-> ValA], [key |-> BadPrefixLen, val |-> ValA]}
  /\ Looked(MainReader) /\ rarg[MainReader] = Addr203
  /\ rres[MainReader] = Miss

\* The prefix the claims give a key: a.b.c.d/n is ::ffff:<network>/(n+96), an
\* IPv6 key is kept as it is.
ClaimedPrefix(k) ==
  IF k.form = "v4"
  THEN [ip |-> MaskIP(Addr128(k.ip), k.mask[1] + 96), len |-> k.mask[1] + 96]
  ELSE [ip |-> MaskIP(IF k.form = "v6mapped" THEN Addr128(k.ip) ELSE k.ip, k.mask[1]),
        len |-> k.mask[1]]

\* C3: the table decoded from a mapping holds, for every IPv4 key a.b.c.d/n,
\* the prefix ::ffff:<network>/(n+96) and every IPv6 key as it is, so that a
\* Lookup hits exactly when the address lies in one of the keys' prefixes.
C3_Normalization ==
  (phase = "table" /\ from.kind = "map") =>
    /\ {e.addr : e \in Stored} = {ClaimedPrefix(e.key) : e \in from.entries}
    /\ Looked(MainReader) =>
         (rres[MainReader].ok <=>
            \E e \in from.entries : Contains(ClaimedPrefix(e.key), Addr128(rarg[MainReader])))

\* C4: decoding the canonical mapping of a decoded table succeeds and gives a
\* table with the same Lookup result for every address.
C4_RoundTrip ==
  (phase = "table" /\ rt.phase # "none") =>
    /\ rt.phase = "table"
    /\ \A a \in Addresses : Lookup(rt.sm, a) = Lookup(sm, a)

\* C4 witness: a table with nested IPv4 prefixes went through MarshalYAML and
\* was decoded again; the most specific entry still answers.
C4_Witness ==
  /\ phase = "table"
  /\ from.entries = {[key |-> Net10Slash8, val |-> ValA], [key |-> Net10Slash16, val |-> ValB]}
  /\ rt.phase = "table"
  /\ Lookup(rt.sm, Addr10Near) = Hit("B")
  /\ Lookup(rt.sm, Addr10Far) = Hit("A")

\* C5: every iteration order of the input mapping that succeeds yields a table
\* with the same Lookup results as the table the decode produced.
C5_OrderIndependent ==
  (phase = "table" /\ from.kind = "map") =>
    \A sigma1 \in Rankings, sigma2 \in Rankings :
      LET h == Hook(from, toSubnetMap, sigma1, sigma2) IN
      h.kind = "table" => \A a \in Addresses : Lookup(h.sm, a) = Lookup(sm, a)

\* The key the claim gives a stored prefix: <IPv6 address>/<prefix length>,
\* ::ffff:a.b.c.d/<96+n> for an IPv4-derived one.
ClaimedKey(addr) ==
  IF SubSeq(addr.ip, 1, 12) = <<0, 0, 0, 0, 0, 0, 0, 0, 0, 0, 255, 255>> /\ addr.len >= 96
  THEN [kind |-> "string", form |-> "v6mapped", ip |-> SubSeq(addr.ip, 13, 16),
        mask |-> <<addr.len>>]
  ELSE [kind |-> "string", form |-> "v6", ip |-> addr.ip, mask |-> <<addr.len>>]

\* The key MarshalYAML gives a stored prefix: dotted a.b.c.d/<len-96> for a
\* prefix inside ::ffff:0:0/96, <IPv6 address>/<len> for any other.
PrintedKey(addr) ==
  IF SubSeq(addr.ip, 1, 12) = <<0, 0, 0, 0, 0, 0, 0, 0, 0, 0, 255, 255>> /\ addr.len >= 96
  THEN [kind |-> "string", form |-> "v4", ip |-> SubSeq(addr.ip, 13, 16),
        mask |-> <<addr.len - 96>>]
  ELSE [kind |-> "string", form |-> "v6", ip |-> addr.ip, mask |-> <<addr.len>>]

\* C6 as claimed: MarshalYAML returns exactly one entry per stored prefix, keyed
\* <IPv6 address>/<prefix length> (::ffff:a.b.c.d/<96+n> for an IPv4-derived
\* entry, never dotted a.b.c.d/n), with the stored value; {} for a nil or empty
\* table.
C6_CanonicalKeysClaimed ==
  Marshalled(MainReader) =>
    /\ Cardinality(rout[MainReader]) = Cardinality(Stored)
    /\ \A e \in Stored : [key |-> ClaimedKey(e.addr), val |-> e.tag] \in rout[MainReader]

\* C6 as amended: MarshalYAML returns exactly one entry per stored prefix, also
\* when prefixes nest, keyed dotted a.b.c.d/<len-96> for a prefix inside
\* ::ffff:0:0/96 and <IPv6 address>/<len> otherwise, with the stored value; {}
\* for a nil or empty table.
C6_CanonicalKeys ==
  Marshalled(MainReader) =>
    /\ Cardinality(rout[MainReader]) = Cardinality(Stored)
    /\ \A e \in Stored : [key |-> PrintedKey(e.addr), val |-> e.tag] \in rout[MainReader]

\* C6 witness: nested prefixes 10.0.0.0/8 and 10.0.0.0/16 were marshalled into
\* two entries.
C6_Witness ==
  /\ phase = "table"
  /\ {e.key : e \in from.entries} = {Net10Slash8, Net10Slash16}
  /\ Marshalled(MainReader)
  /\ Cardinality(rout[MainReader]) = 2

\* "::/0" as the claims write it.
SlashZero ==
  [kind |-> "string", form |-> "v6",
   ip |-> <<0, 0, 0, 0, 0, 0, 0, 0, 0, 0, 0, 0, 0, 0, 0, 0>>, mask |-> <<0>>]
IsSingleValue == from.kind = "scalar" /\ from.val.type \in {"V", "conv"}

\* What C7 promises of a decoded single value: the table of {"::/0": value},
\* a hit with the value on every address, the canonical mapping {"::/0": value}.
SingleValueTable ==
  /\ phase = "table"
  /\ \A s1 \in Rankings, s2 \in Rankings :
       Hook([kind |-> "map", entries |-> {[key |-> SlashZero, val |-> from.val]},
             val |-> from.val], TRUE, s1, s2).sm = sm
  /\ Looked(MainReader) => rres[MainReader] = Hit(from.val.val)
  /\ Marshalled(MainReader) => rout[MainReader] = {[key |-> SlashZero, val |-> from.val.val]}

\* C7 as claimed: a raw input that is not a mapping and is of type V or
\* convertible to V decodes successfully into the table of {"::/0": value}.
C7_SingleValueClaimed ==
  (phase # "init" /\ toSubnetMap /\ IsSingleValue) => SingleValueTable

\* C7 as amended: a raw input that is not a mapping and is of type V, or
\* convertible to V and accepted by the inner value decode, decodes into the
\* table of {"::/0": value}; a convertible value the inner value decode
\* rejects makes Decode return an error and no table.
C7_SingleValue ==
  (phase # "init" /\ toSubnetMap /\ IsSingleValue) =>
    /\ from.val.type = "V" => from.val.ok
    /\ IF from.val.ok THEN SingleValueTable
       ELSE phase = "error" /\ ret.err # "" /\ ~sm.hasTree

\* C7 witness: the single value A was decoded and an IPv6 address looked up.
C7_Witness ==
  /\ phase = "table" /\ from = ScalarInput(ValA)
  /\ Looked(MainReader) /\ rarg[MainReader] = AddrDb8Out
  /\ rres[MainReader] = Hit("A")

\* C8: once Decode has returned, Lookup and MarshalYAML never change the
\* table, and under every interleaving each returned call gave what it gives
\* when run alone on the table.
C8_ReadOnly ==
  /\ [][phase # "init" => sm' = sm]_vars
  /\ [](\A r \in Readers :
          /\ Looked(r) => rres[r] = Lookup(sm, rarg[r])
          /\ Marshalled(r) => rout[r] = MarshalYAML(sm))

\* C8 witness: one reader is inside MarshalYAML's loop, having visited one of
\* two entries, while another reader's Lookup has returned a hit.
C8_Witness ==
  /\ phase = "table" /\ Cardinality(sm.tree) = 2
  /\ rpc[1] = "iter" /\ Cardinality(rvisited[1]) = 1
  /\ Looked(2) /\ rres[2].ok

\* C9: the hook declines (returns the raw input, nil error, no table) when the
\* target is not a SubnetMap[V] or the input is neither a mapping nor of type
\* V / convertible to V; it errs only on a mapping with an invalid key or on a
\* failed inner value decode.
C9_Declines ==
  phase # "init" =>
    /\ (~toSubnetMap \/ (from.kind = "scalar" /\ from.val.type = "other")) =>
         phase = "declined"
    /\ phase = "declined" =>
         ret = [err |-> "", value |-> from] /\ sm = [hasTree |-> FALSE, tree |-> {}]
    /\ phase = "error" =>
         /\ toSubnetMap
         /\ \/ from.kind = "map" /\ HasInvalidKey
            \/ from.kind = "map" /\ \E e \in from.entries : ~e.val.ok
            \/ IsSingleValue /\ ~from.val.ok

\* C9 witness: a scalar that is neither of type V nor convertible to it was
\* handed to the hook for a SubnetMap[V] target and came back unchanged.
C9_Witness ==
  /\ toSubnetMap /\ from = ScalarInput(ValOther)
  /\ phase = "declined" /\ ret.value = from /\ ret.err = ""
  /\ Looked(MainReader)

LogChecks == SelectSeq(mig.log, LAMBDA x : x.ev = "check")
Failure(x) == x.res \in {"queryError", "scanError", "error"}

\* What has happened so far respects the order of the steps.
MigrationOrdered ==
  /\ \A i \in 1..Len(LogChecks) : LogChecks[i].step = i
  /\ \A i \in 1..Len(mig.log) :
       LET x == mig.log[i] IN
       /\ x.ev = "do" =>
            /\ i > 1
            /\ mig.log[i - 1].ev = "check" /\ mig.log[i - 1].step = x.step
            /\ mig.log[i - 1].res \in {"noRow", "zero"}
       /\ (x.ev = "check" /\ x.res \in {"noRow", "zero"} /\ i < Len(mig.log)) =>
            mig.log[i + 1] \in {[ev |-> "do", step |-> x.step, res |-> "ok"],
                                [ev |-> "do", step |-> x.step, res |-> "error"]}
       /\ (x.ev = "check" /\ x.res = "nonZero" /\ i < Len(mig.log)) =>
            mig.log[i + 1].ev = "check"
       /\ Failure(x) => i = Len(mig.log) /\ mig.pc = "failed"
  /\ mig.pc = "failed" => mig.closes = 0
  /\ mig.closes <= 1
  /\ mig.closes = 1 =>
       /\ mig.pc = "done"
       /\ Len(LogChecks) = NumSteps
       /\ LET last == mig.log[Len(mig.log)] IN
          \/ last.ev = "check" /\ last.res = "nonZero"
          \/ last.ev = "do" /\ last.res = "ok"
       /\ \A i \in 1..Len(mig.log) : ~Failure(mig.log[i])

\* C10: migrateDatabase handles the steps in their listed order; a step's Do
\* runs only right after its check gave no row or 0 and is skipped on a
\* non-zero value; the first failure ends the run at once with migrationsDone
\* left open; migrationsDone is closed once, after every step was skipped or
\* executed successfully.
C10_Migration ==
  /\ []MigrationOrdered
  /\ [][mig.pc \in {"failed", "done"} => mig' = mig]_vars

\* C10 witness: a run that skipped a step and executed another closed
\* migrationsDone.
C10_Witness ==
  /\ mig.pc = "done" /\ mig.closes = 1
  /\ mig.notApplied > 0 /\ mig.applied > 0

====
